---- MODULE Spec2Model ----
(***************************************************************************)
(* Notes_Organizer: OCR -> zero-shot classification -> upload into a       *)
(* subject folder tree.  The model follows src/ocr_processor.py,           *)
(* src/text_classifier.py, src/google_drive.py and src/notes_organizer.py. *)
(*                                                                         *)
(* A text is a sequence of characters.  A character is a one-character     *)
(* string, except "NL" (a newline, whitespace that is not printable) and   *)
(* "NP" (a control character such as \x01: neither whitespace nor          *)
(* printable).  Scores and confidences are integers in hundredths          *)
(* (0.3 is 30).                                                            *)
(***************************************************************************)
EXTENDS Integers, Sequences, FiniteSets, TLC

VARIABLES
    classifier,     \* TextClassifier.classifier: "none" (None) or "pipeline"
    cuda,           \* torch.cuda.is_available() at construction
    loadAttempts,   \* devices _load_model tried, in order
    subjects,       \* keys of TextClassifier.subjects
    input,          \* the text and threshold a caller classifies
    lastCall,       \* the last classifier call: its inputs, what the model did, its return
    results,        \* ProcessingResults produced by process_single_image, in order
    stages,         \* per result: how often each stage of the pipeline ran for it
    folders,        \* remote store: the folders
    files,          \* remote store: the uploaded files
    nextId,         \* remote store: the next identifier it assigns
    existing,       \* local paths that exist on disk
    lastOp,         \* the last Storage Organizer operation and what it returned
    prevOp,         \* the operation before it, when nothing happened in between
    org,            \* the organize_notes_by_subject call in progress
    scan,           \* what the OCR engine gave for one image, and what OCRProcessor made of it
    summary,        \* <<>>, or the one summary get_processing_summary returned for results
    run             \* the NotesOrganizer call in progress: its arguments, position and locals

vars == <<classifier, cuda, loadAttempts, subjects, input, lastCall, results, stages,
          folders, files, nextId, existing, lastOp, prevOp, org, scan, summary, run>>

classifierVars == <<classifier, cuda, loadAttempts, subjects, input, lastCall>>
pipelineVars == <<results, stages>>
driveVars == <<folders, files, nextId, existing, lastOp, prevOp, org>>
coordVars == <<scan, summary, run>>

----------------------------------------------------------------------------
(* Characters and Python's string operations                               *)

LowerLetters == {"a", "b", "c", "d", "e"}
UpperLetters == {"A", "I", "O"}
Digits == {"0", "1"}

\* str.isspace: what str.split() splits on, str.strip() strips and \s matches
IsSpace(c) == c \in {" ", "NL"}

\* str.isprintable: a space is printable, a newline or control character is not
IsPrintable(c) == c \notin {"NL", "NP"}

\* the regular expression's \w
IsWordChar(c) == c \in LowerLetters \cup UpperLetters \cup Digits \cup {"_"}

\* str.lower on one character
LowerChar(c) ==
    CASE c = "A" -> "a"
      [] c = "I" -> "i"
      [] c = "O" -> "o"
      [] OTHER -> c

RECURSIVE SplitFrom(_, _, _)
SplitFrom(text, cur, acc) ==
    IF text = <<>>
    THEN IF cur = <<>> THEN acc ELSE Append(acc, cur)
    ELSE IF IsSpace(Head(text))
         THEN SplitFrom(Tail(text), <<>>, IF cur = <<>> THEN acc ELSE Append(acc, cur))
         ELSE SplitFrom(Tail(text), Append(cur, Head(text)), acc)

\* text.split(): the maximal runs of non-whitespace characters
Split(text) == SplitFrom(text, <<>>, <<>>)

RECURSIVE Join(_)
\* ' '.join(words)
Join(words) ==
    IF words = <<>> THEN <<>>
    ELSE IF Len(words) = 1 THEN words[1]
    ELSE words[1] \o <<" ">> \o Join(Tail(words))

RECURSIVE LStrip(_)
LStrip(text) ==
    IF text # <<>> /\ IsSpace(Head(text)) THEN LStrip(Tail(text)) ELSE text

RECURSIVE RStrip(_)
RStrip(text) ==
    IF text # <<>> /\ IsSpace(text[Len(text)])
    THEN RStrip(SubSeq(text, 1, Len(text) - 1))
    ELSE text

\* text.strip()
Strip(text) == RStrip(LStrip(text))

----------------------------------------------------------------------------
(* Input texts: up to MaxPieces pieces, concatenated                       *)

MaxPieces == 3

Pieces ==
    { <<"a", "b">>,
      <<"a", "b", ".", "d">>,
      <<"A", "b", "c", "d", "e">>,
      <<" ">>,
      <<"@">> }

RECURSIVE TextsOf(_)
TextsOf(n) ==
    IF n = 0 THEN {<<>>}
    ELSE LET shorter == TextsOf(n - 1)
         IN  shorter \cup {t \o p : t \in shorter, p \in Pieces}

Texts == TextsOf(MaxPieces)

----------------------------------------------------------------------------
(* TextClassifier (src/text_classifier.py)                                 *)

None == "none"
Unknown == "unknown"

\* the keys of self.subjects as __init__ sets them
DefaultSubjects ==
    { "mathematics", "physics", "chemistry", "biology", "computer_science",
      "history", "literature", "geography", "economics", "psychology",
      "philosophy", "art", "music", "medicine", "engineering", "astronomy",
      "linguistics", "political_science", "sociology", "environmental_science" }

\* names a caller passes to add_custom_subject, and str.lower() of each
CustomNames == {"Unknown"}
LowerName(n) ==
    CASE n = "Unknown" -> "unknown"
      [] OTHER -> n

\* len(cleaned_text) < 10 in classify_text, and in get_classification_confidence
MinTextLen == 10
MinProbeLen == 10

DefaultThreshold == 30
Thresholds == {DefaultThreshold, 50}
Scores == {29, 30, 50}

\* the labels the model is taken to rank first, when they are candidates
RankedFirst == {"biology", "unknown"}

NoOutcome == [raises |-> FALSE, top |-> None, score |-> 0]

\* what one invocation of the zero-shot pipeline does with these candidate
\* labels: it raises, or ranks one of them first with some score
Outcomes(candidates) ==
    {[raises |-> TRUE, top |-> None, score |-> 0]}
        \cup [raises : {FALSE}, top : candidates, score : Scores]

\* _load_model: device 0 when CUDA is available, else -1; on an exception the
\* pipeline is built again with device -1; on a second exception it is None
LoadModel(cudaAvailable, firstLoads, secondLoads) ==
    LET first == IF cudaAvailable THEN "gpu" ELSE "cpu"
    IN  IF firstLoads
        THEN [classifier |-> "pipeline", attempts |-> <<first>>]
        ELSE IF secondLoads
             THEN [classifier |-> "pipeline", attempts |-> <<first, "cpu">>]
             ELSE [classifier |-> None, attempts |-> <<first, "cpu">>]

\* the characters the regular expression of _preprocess_text keeps
IsKept(c) ==
    \/ IsWordChar(c)
    \/ IsSpace(c)
    \/ c \in {".", ",", "!", "?", ";", ":", "-", "(", ")", "[", "]", "{", "}"}

BlankUnlessKept(c) == IF IsKept(c) THEN c ELSE " "

\* re.sub of every character that is not kept by a space
BlankOthers(text) == [i \in 1..Len(text) |-> BlankUnlessKept(text[i])]

\* text.lower()
Lower(text) == [i \in 1..Len(text) |-> LowerChar(text[i])]

\* _preprocess_text
PreprocessText(text) ==
    LET collapsed == Join(Split(text))
        replaced == BlankOthers(collapsed)
        lowered == Lower(replaced)
        words == Split(lowered)
    IN  Join(SelectSeq(words, LAMBDA w : Len(w) > 2))

ClassifyTextStrictThreshold(clf, text, threshold, outcome) ==
    IF clf = None \/ Strip(text) = <<>>
    THEN [label |-> Unknown, score |-> 0, invoked |-> FALSE]
    ELSE IF Len(PreprocessText(text)) < MinTextLen
         THEN [label |-> Unknown, score |-> 0, invoked |-> FALSE]
         ELSE IF outcome.raises
              THEN [label |-> Unknown, score |-> 0, invoked |-> TRUE]
              ELSE IF outcome.score > threshold
                   THEN [label |-> outcome.top, score |-> outcome.score, invoked |-> TRUE]
                   ELSE [label |-> Unknown, score |-> outcome.score, invoked |-> TRUE]

ClassifyTextOffByOne(clf, text, threshold, outcome) ==
    IF clf = None \/ Strip(text) = <<>>
    THEN [label |-> Unknown, score |-> 0, invoked |-> FALSE]
    ELSE IF Len(PreprocessText(text)) <= MinTextLen
         THEN [label |-> Unknown, score |-> 0, invoked |-> FALSE]
         ELSE IF outcome.raises
              THEN [label |-> Unknown, score |-> 0, invoked |-> TRUE]
              ELSE IF outcome.score >= threshold
                   THEN [label |-> outcome.top, score |-> outcome.score, invoked |-> TRUE]
                   ELSE [label |-> Unknown, score |-> outcome.score, invoked |-> TRUE]

ClassifyTextNoLoadCheck(clf, text, threshold, outcome) ==
    IF Strip(text) = <<>>
    THEN [label |-> Unknown, score |-> 0, invoked |-> FALSE]
    ELSE IF Len(PreprocessText(text)) < MinTextLen
         THEN [label |-> Unknown, score |-> 0, invoked |-> FALSE]
         ELSE IF outcome.raises
              THEN [label |-> Unknown, score |-> 0, invoked |-> TRUE]
              ELSE IF outcome.score >= threshold
                   THEN [label |-> outcome.top, score |-> outcome.score, invoked |-> TRUE]
                   ELSE [label |-> Unknown, score |-> outcome.score, invoked |-> TRUE]

\* classify_text: the pair it returns, and whether it invoked the model.
\* outcome is what the model does if it is invoked.
ClassifyText(clf, text, threshold, outcome) ==
    IF clf = None \/ Strip(text) = <<>>
    THEN [label |-> Unknown, score |-> 0, invoked |-> FALSE]
    ELSE IF Len(PreprocessText(text)) < MinTextLen
         THEN [label |-> Unknown, score |-> 0, invoked |-> FALSE]
         ELSE IF outcome.raises
              THEN [label |-> Unknown, score |-> 0, invoked |-> TRUE]
              ELSE IF outcome.score >= threshold
                   THEN [label |-> outcome.top, score |-> outcome.score, invoked |-> TRUE]
                   ELSE [label |-> Unknown, score |-> outcome.score, invoked |-> TRUE]

\* get_classification_confidence: the score it returns, and whether it
\* invoked the model (with the single candidate label subject)
GetClassificationConfidence(clf, subj, text, subject, outcome) ==
    IF clf = None \/ subject \notin subj
    THEN [score |-> 0, invoked |-> FALSE]
    ELSE IF Len(PreprocessText(text)) < MinProbeLen
         THEN [score |-> 0, invoked |-> FALSE]
         ELSE IF outcome.raises
              THEN [score |-> 0, invoked |-> TRUE]
              ELSE [score |-> outcome.score, invoked |-> TRUE]

NoCall ==
    [op |-> None, text |-> <<>>, threshold |-> 0, subject |-> None,
     outcome |-> NoOutcome, label |-> None, score |-> 0, invoked |-> FALSE]

\* a caller calls classify_text(input.text, input.threshold)
ClassifyTextCall ==
    LET probe == ClassifyText(classifier, input.text, input.threshold, NoOutcome)
    IN
      \E outcome \in IF probe.invoked THEN Outcomes(subjects \cap RankedFirst)
                      ELSE {NoOutcome} :
        LET r == ClassifyText(classifier, input.text, input.threshold, outcome)
        IN  /\ lastCall' = [op |-> "classify_text", text |-> input.text,
                            threshold |-> input.threshold, subject |-> None,
                            outcome |-> IF r.invoked THEN outcome ELSE NoOutcome,
                            label |-> r.label, score |-> r.score,
                            invoked |-> r.invoked]
            /\ UNCHANGED <<classifier, cuda, loadAttempts, subjects, input>>
            /\ UNCHANGED <<pipelineVars, driveVars, coordVars>>

\* a caller calls get_classification_confidence(input.text, subject)
GetClassificationConfidenceCall ==
    \E subject \in (subjects \cap RankedFirst) \cup {"alchemy"} :
      \E outcome \in IF GetClassificationConfidence(classifier, subjects, input.text,
                                                    subject, NoOutcome).invoked
                      THEN Outcomes({subject})
                      ELSE {NoOutcome} :
        LET r == GetClassificationConfidence(classifier, subjects, input.text,
                                             subject, outcome)
        IN  /\ lastCall' = [op |-> "get_classification_confidence",
                            text |-> input.text,
                            threshold |-> 0, subject |-> subject,
                            outcome |-> IF r.invoked THEN outcome ELSE NoOutcome,
                            label |-> None, score |-> r.score,
                            invoked |-> r.invoked]
            /\ UNCHANGED <<classifier, cuda, loadAttempts, subjects, input>>
            /\ UNCHANGED <<pipelineVars, driveVars, coordVars>>

\* a caller calls add_custom_subject(name, description)
AddCustomSubject ==
    \E name \in CustomNames :
        /\ subjects' = subjects \cup {LowerName(name)}
        /\ UNCHANGED <<classifier, cuda, loadAttempts, input, lastCall>>
        /\ UNCHANGED <<pipelineVars, driveVars, coordVars>>

\* TextClassifier(): the state __init__ leaves
InitClassifier ==
    /\ cuda \in BOOLEAN
    /\ \E firstLoads \in BOOLEAN, secondLoads \in BOOLEAN :
         LET m == LoadModel(cuda, firstLoads, secondLoads)
         IN  /\ classifier = m.classifier
             /\ loadAttempts = m.attempts
    /\ subjects = DefaultSubjects
    /\ input = [text |-> <<>>, threshold |-> DefaultThreshold]
    /\ lastCall = NoCall

\* the same, with the text and the threshold a caller is about to classify
InitClassifierWithInput ==
    /\ cuda \in BOOLEAN
    /\ \E firstLoads \in BOOLEAN, secondLoads \in BOOLEAN :
         LET m == LoadModel(cuda, firstLoads, secondLoads)
         IN  /\ classifier = m.classifier
             /\ loadAttempts = m.attempts
    /\ subjects = DefaultSubjects
    /\ input \in [text : Texts, threshold : Thresholds]
    /\ lastCall = NoCall

----------------------------------------------------------------------------
(* OCRProcessor (src/ocr_processor.py)                                     *)

ReplaceArtifact(c) ==
    CASE c = "|" -> "I"
      [] c = "0" -> "O"
      [] OTHER -> c

\* text.replace('|', 'I').replace('0', 'O')
ReplaceArtifacts(text) == [i \in 1..Len(text) |-> ReplaceArtifact(text[i])]

\* clean_text
CleanText(text) ==
    LET collapsed == Join(Split(text))
        replaced == ReplaceArtifacts(collapsed)
        printable == SelectSeq(replaced, IsPrintable)
    IN  Strip(printable)

\* what pytesseract.image_to_string does: it raises, or returns a raw text
RawTexts ==
    { <<>>,
      <<" ", "NL">>,
      <<"NL", "a", "b", " ", " ", "|", "0", "NL">>,
      <<"A", "b", "c", "d", "e", " ", "a", "b", "c", "d">>,
      <<" ", "A", "b", "c", "d", "e", "NL", "a", "b", "c", "d", "e", "NP", "NL">> }

OcrOutcomes == {[raises |-> TRUE, raw |-> <<>>]} \cup [raises : {FALSE}, raw : RawTexts]

\* extract_text: cv2.imread gives None for a missing or unreadable file and
\* the ValueError raised for it, like any exception of the engine, is caught
ExtractText(readable, ocr) ==
    IF ~readable
    THEN <<>>
    ELSE IF ocr.raises THEN <<>> ELSE CleanText(ocr.raw)

RECURSIVE SumSeq(_)
SumSeq(ns) == IF ns = <<>> THEN 0 ELSE Head(ns) + SumSeq(Tail(ns))

\* what pytesseract.image_to_data does: it raises, or returns data['conf']
ConfLists == { <<-1>>, <<-1, 90, 70>>, <<0, 50>> }

DataOutcomes == {[raises |-> TRUE, conf |-> <<>>]} \cup [raises : {FALSE}, conf : ConfLists]

\* get_text_confidence, in hundredths (the lists of ConfLists have exact means)
GetTextConfidence(readable, data) ==
    IF ~readable \/ data.raises
    THEN 0
    ELSE LET confidences == SelectSeq(data.conf, LAMBDA c : c > 0)
         IN  IF confidences # <<>>
             THEN (SumSeq(confidences) * 100) \div Len(confidences)
             ELSE 0

\* OCRProcessor called directly.  scan holds what the engine gave for one
\* image (raw text, or the conf column and whether reading or the engine
\* failed) and what clean_text and get_text_confidence returned for it.
MaxRaw == 5
MaxTokens == 2

RawChars == {" ", "NL", "NP", "a", "|", "0"}
TokenConfidences == {-1, 0, 50, 90}

RECURSIVE SeqsOf(_, _)
SeqsOf(elements, n) ==
    IF n = 0 THEN {<<>>}
    ELSE LET shorter == SeqsOf(elements, n - 1)
         IN  shorter \cup {Append(q, e) : q \in shorter, e \in elements}

NoScan ==
    [kind |-> None, raw |-> <<>>, readable |-> TRUE, raises |-> FALSE, conf |-> <<>>,
     calls |-> 0, cleaned |-> <<>>, cleanedAgain |-> <<>>, confidence |-> 0]

\* a caller has a raw text of the engine, or an image whose tokens the engine
\* rates
InitScan ==
    \/ \E raw \in SeqsOf(RawChars, MaxRaw) :
         scan = <<[NoScan EXCEPT !.kind = "text", !.raw = raw]>>
    \/ \E conf \in SeqsOf(TokenConfidences, MaxTokens), readable \in BOOLEAN,
          raises \in BOOLEAN :
         scan = <<[NoScan EXCEPT !.kind = "image", !.conf = conf,
                                 !.readable = readable, !.raises = raises]>>

\* a caller calls clean_text(raw)
CleanTextCall ==
    /\ scan[1].kind = "text"
    /\ scan[1].calls = 0
    /\ scan' = <<[scan[1] EXCEPT !.calls = 1, !.cleaned = CleanText(scan[1].raw)]>>
    /\ UNCHANGED <<classifierVars, pipelineVars, driveVars, summary, run>>

\* the caller calls clean_text on what clean_text returned
CleanTextAgainCall ==
    /\ scan[1].kind = "text"
    /\ scan[1].calls = 1
    /\ scan' = <<[scan[1] EXCEPT !.calls = 2,
                                 !.cleanedAgain = CleanText(scan[1].cleaned)]>>
    /\ UNCHANGED <<classifierVars, pipelineVars, driveVars, summary, run>>

\* a caller calls get_text_confidence(image_path)
GetTextConfidenceCall ==
    /\ scan[1].kind = "image"
    /\ scan[1].calls = 0
    /\ scan' = <<[scan[1] EXCEPT
                    !.calls = 1,
                    !.confidence =
                        GetTextConfidence(scan[1].readable,
                                          [raises |-> scan[1].raises,
                                           conf |-> scan[1].conf])]>>
    /\ UNCHANGED <<classifierVars, pipelineVars, driveVars, summary, run>>

----------------------------------------------------------------------------
(* NotesOrganizer.process_single_image (src/notes_organizer.py)            *)

ImagePaths == {"a.jpg", "b.png"}
MaxImages == 1

\* what happened during one call, kept beside its result: how often each
\* stage ran, what extract_text returned, and what the collaborators did
Observed(env, extracted_text, confidence, classify, model) ==
    [extract |-> 1, confidence |-> confidence, classify |-> classify, model |-> model,
     extracted |-> extracted_text,
     readable |-> env.readable, ocrRaises |-> env.ocr.raises, raw |-> env.ocr.raw,
     dataRaises |-> env.data.raises, modelRaises |-> env.outcome.raises]

ProcessSingleImageClassifiesFirst(image_path, threshold, clf, env) ==
    LET extracted_text == ExtractText(env.readable, env.ocr)
        c == ClassifyText(clf, extracted_text, threshold, env.outcome)
    IN  IF Strip(extracted_text) = <<>>
        THEN [result |-> [image_path |-> image_path, text |-> <<>>,
                          subject |-> c.label, confidence |-> c.score,
                          ocr_confidence |-> 0, status |-> "no_text_extracted"],
              stages |-> Observed(env, extracted_text, 0, 1, IF c.invoked THEN 1 ELSE 0)]
        ELSE [result |-> [image_path |-> image_path, text |-> extracted_text,
                          subject |-> c.label, confidence |-> c.score,
                          ocr_confidence |-> GetTextConfidence(env.readableAgain, env.data),
                          status |-> "success"],
              stages |-> Observed(env, extracted_text, 1, 1, IF c.invoked THEN 1 ELSE 0)]

ProcessSingleImageRetriesExtraction(image_path, threshold, clf, env) ==
    LET extracted_text == ExtractText(env.readable, env.ocr)
        again == ExtractText(env.readableAgain, env.ocr)
    IN  IF Strip(extracted_text) = <<>> /\ Strip(again) = <<>>
        THEN [result |-> [image_path |-> image_path, text |-> <<>>,
                          subject |-> Unknown, confidence |-> 0,
                          ocr_confidence |-> 0, status |-> "no_text_extracted"],
              stages |-> [Observed(env, again, 0, 0, 0) EXCEPT !.extract = 2]]
        ELSE LET text == IF Strip(extracted_text) = <<>> THEN again ELSE extracted_text
                 ocr_confidence == GetTextConfidence(env.readableAgain, env.data)
                 c == ClassifyText(clf, text, threshold, env.outcome)
             IN  [result |-> [image_path |-> image_path, text |-> text,
                              subject |-> c.label, confidence |-> c.score,
                              ocr_confidence |-> ocr_confidence, status |-> "success"],
                  stages |-> [Observed(env, text, 1, 1, IF c.invoked THEN 1 ELSE 0)
                                 EXCEPT !.extract =
                                     IF Strip(extracted_text) = <<>> THEN 2 ELSE 1]]

ProcessSingleImageNoEmptyCheck(image_path, threshold, clf, env) ==
    LET extracted_text == ExtractText(env.readable, env.ocr)
        c == ClassifyText(clf, extracted_text, threshold, env.outcome)
    IN  [result |-> [image_path |-> image_path, text |-> extracted_text,
                     subject |-> c.label, confidence |-> c.score,
                     ocr_confidence |-> GetTextConfidence(env.readableAgain, env.data),
                     status |-> "success"],
         stages |-> Observed(env, extracted_text, 1, 1, IF c.invoked THEN 1 ELSE 0)]

\* process_single_image: the result, and what happened to produce it.
\* env is what the collaborators do: whether cv2.imread reads the file in
\* extract_text and again in get_text_confidence, what the engine returns
\* for each, and what the model does if it is invoked.
ProcessSingleImage(image_path, threshold, clf, env) ==
    LET extracted_text == ExtractText(env.readable, env.ocr)
    IN  IF Strip(extracted_text) = <<>>
        THEN [result |-> [image_path |-> image_path, text |-> <<>>,
                          subject |-> Unknown, confidence |-> 0,
                          ocr_confidence |-> 0, status |-> "no_text_extracted"],
              stages |-> Observed(env, extracted_text, 0, 0, 0)]
        ELSE LET ocr_confidence == GetTextConfidence(env.readableAgain, env.data)
                 c == ClassifyText(clf, extracted_text, threshold, env.outcome)
             IN  [result |-> [image_path |-> image_path, text |-> extracted_text,
                              subject |-> c.label, confidence |-> c.score,
                              ocr_confidence |-> ocr_confidence, status |-> "success"],
                  stages |-> Observed(env, extracted_text, 1, 1,
                                      IF c.invoked THEN 1 ELSE 0)]

\* what the collaborators may do during one process_single_image call
Environments(image_path) ==
    [readable : IF image_path \in existing THEN BOOLEAN ELSE {FALSE},
     ocr : OcrOutcomes,
     readableAgain : IF image_path \in existing THEN BOOLEAN ELSE {FALSE},
     data : DataOutcomes,
     outcome : Outcomes(subjects \cap RankedFirst)]

\* a caller calls process_single_image(image_path, threshold)
ProcessSingleImageCall ==
    /\ Len(results) < MaxImages
    /\ \E image_path \in ImagePaths, threshold \in Thresholds :
         \E env \in Environments(image_path) :
           LET p == ProcessSingleImage(image_path, threshold, classifier, env)
           IN  /\ results' = Append(results, p.result)
               /\ stages' = Append(stages, p.stages)
    /\ UNCHANGED <<classifierVars, driveVars, coordVars>>

InitPipeline ==
    /\ results = <<>>
    /\ stages = <<>>


----------------------------------------------------------------------------
(* GoogleDriveManager (src/google_drive.py)                                *)
(*                                                                         *)
(* Identifiers are positive integers; 0 stands for None.  A remote call    *)
(* ends "ok", with an HttpError ("http_error": the service answered with   *)
(* an error status) or with another exception ("transport_error": the      *)
(* connection failed, a timeout, a refused token refresh).                 *)

NoId == 0
MaxId == 4

FolderNames == {"biology", "unknown"}
Parents == {NoId, 1}
CallOutcomes == {"ok", "http_error", "transport_error"}

\* the folders the query of find_folder selects: exact name, not trashed,
\* and under the parent when one is given
Matches(fs, folder_name, parent_folder_id) ==
    {f \in fs : /\ f.name = folder_name
                /\ ~f.trashed
                /\ (parent_folder_id # NoId => f.parent = parent_folder_id)}

\* the identifiers files().list may return first
Firsts(fs, folder_name, parent_folder_id) ==
    IF Matches(fs, folder_name, parent_folder_id) = {}
    THEN {NoId}
    ELSE {f.id : f \in Matches(fs, folder_name, parent_folder_id)}

\* find_folder: first is the id of the folder the listing returns first
FindFolder(outcome, first) ==
    CASE outcome = "ok" -> [ret |-> first, raised |-> FALSE]
      [] outcome = "http_error" -> [ret |-> NoId, raised |-> FALSE]
      [] OTHER -> [ret |-> NoId, raised |-> TRUE]

\* create_folder: the folder it adds to the store, if any
CreateFolder(folder_name, parent_folder_id, outcome, id) ==
    CASE outcome = "ok" ->
           [ret |-> id, raised |-> FALSE,
            new |-> {[id |-> id, name |-> folder_name,
                      parent |-> parent_folder_id, trashed |-> FALSE]}]
      [] outcome = "http_error" -> [ret |-> NoId, raised |-> FALSE, new |-> {}]
      [] OTHER -> [ret |-> NoId, raised |-> TRUE, new |-> {}]

\* get_or_create_folder: env is how its remote calls end
GetOrCreateFolder(folder_name, parent_folder_id, env, id) ==
    LET found == FindFolder(env.find, env.first)
    IN  IF found.raised
        THEN [ret |-> NoId, raised |-> TRUE, new |-> {}, calls |-> {"list"}]
        ELSE IF found.ret # NoId
             THEN [ret |-> found.ret, raised |-> FALSE, new |-> {}, calls |-> {"list"}]
             ELSE LET c == CreateFolder(folder_name, parent_folder_id, env.create, id)
                  IN  [ret |-> c.ret, raised |-> c.raised, new |-> c.new,
                       calls |-> {"list", "create_folder"}]

\* upload_file: the file it adds to the store, if any
UploadFile(exists, folder_id, filename, outcome, id) ==
    IF ~exists
    THEN [ret |-> NoId, raised |-> FALSE, new |-> {}, calls |-> {}]
    ELSE CASE outcome = "ok" ->
                [ret |-> id, raised |-> FALSE,
                 new |-> {[id |-> id, name |-> filename, parent |-> folder_id]},
                 calls |-> {"create_file"}]
           [] outcome = "http_error" ->
                [ret |-> NoId, raised |-> FALSE, new |-> {}, calls |-> {"create_file"}]
           [] OTHER ->
                [ret |-> NoId, raised |-> TRUE, new |-> {}, calls |-> {"create_file"}]

\* how the remote calls of one get_or_create_folder may end
FolderEnvs(fs, folder_name, parent_folder_id) ==
    [find : CallOutcomes,
     first : Firsts(fs, folder_name, parent_folder_id),
     create : CallOutcomes]

NoOp ==
    [op |-> None, name |-> None, parent |-> NoId, ret |-> NoId,
     raised |-> FALSE, created |-> FALSE, matched |-> FALSE]

NextIdAfter(new) == IF new = {} THEN nextId ELSE nextId + 1

\* a caller calls find_folder(folder_name, parent_folder_id)
FindFolderCall ==
    /\ org.state # "running"
    /\ \E folder_name \in FolderNames, parent \in Parents, outcome \in CallOutcomes :
         \E first \in Firsts(folders, folder_name, parent) :
           LET r == FindFolder(outcome, first)
           IN  lastOp' = [op |-> "find_folder", name |-> folder_name, parent |-> parent,
                          ret |-> r.ret, raised |-> r.raised, created |-> FALSE,
                          matched |-> Matches(folders, folder_name, parent) # {}]
    /\ prevOp' = NoOp
    /\ UNCHANGED <<folders, files, nextId, existing, org>>
    /\ UNCHANGED <<classifierVars, pipelineVars, coordVars>>

\* a caller calls create_folder(folder_name, parent_folder_id)
CreateFolderCall ==
    /\ org.state # "running"
    /\ nextId <= MaxId
    /\ \E folder_name \in FolderNames, parent \in Parents, outcome \in CallOutcomes :
         LET r == CreateFolder(folder_name, parent, outcome, nextId)
         IN  /\ folders' = folders \cup r.new
             /\ nextId' = NextIdAfter(r.new)
             /\ lastOp' = [op |-> "create_folder", name |-> folder_name, parent |-> parent,
                           ret |-> r.ret, raised |-> r.raised, created |-> r.new # {},
                           matched |-> Matches(folders, folder_name, parent) # {}]
    /\ prevOp' = NoOp
    /\ UNCHANGED <<files, existing, org>>
    /\ UNCHANGED <<classifierVars, pipelineVars, coordVars>>

\* a caller calls get_or_create_folder(folder_name, parent_folder_id)
GetOrCreateFolderCall ==
    /\ org.state # "running"
    /\ nextId <= MaxId
    /\ \E folder_name \in FolderNames, parent \in Parents :
         \E env \in FolderEnvs(folders, folder_name, parent) :
           LET r == GetOrCreateFolder(folder_name, parent, env, nextId)
           IN  /\ folders' = folders \cup r.new
               /\ nextId' = NextIdAfter(r.new)
               /\ lastOp' = [op |-> "get_or_create_folder", name |-> folder_name,
                             parent |-> parent, ret |-> r.ret, raised |-> r.raised,
                             created |-> r.new # {},
                             matched |-> Matches(folders, folder_name, parent) # {}]
    /\ prevOp' = IF lastOp.op = "get_or_create_folder" THEN lastOp ELSE NoOp
    /\ UNCHANGED <<files, existing, org>>
    /\ UNCHANGED <<classifierVars, pipelineVars, coordVars>>

\* a caller calls upload_file(file_path, folder_id) with the default filename
UploadFileCall ==
    /\ org.state # "running"
    /\ nextId <= MaxId
    /\ \E file_path \in ImagePaths, outcome \in CallOutcomes :
       \E folder \in folders :
         LET r == UploadFile(file_path \in existing, folder.id, <<file_path>>,
                             outcome, nextId)
         IN  /\ files' = files \cup r.new
             /\ nextId' = NextIdAfter(r.new)
             /\ lastOp' = [op |-> "upload_file", name |-> file_path, parent |-> folder.id,
                           ret |-> r.ret, raised |-> r.raised, created |-> r.new # {},
                           matched |-> FALSE]
    /\ prevOp' = NoOp
    /\ UNCHANGED <<folders, existing, org>>
    /\ UNCHANGED <<classifierVars, pipelineVars, coordVars>>


----------------------------------------------------------------------------
(* GoogleDriveManager.organize_notes_by_subject, one iteration per step    *)

NoPath == ""
MaxNotes == 2

NoteKinds == [image_path : ImagePaths \cup {NoPath}, subject : FolderNames]

RECURSIVE NotesOf(_)
NotesOf(n) ==
    IF n = 0 THEN {<<>>}
    ELSE LET shorter == NotesOf(n - 1)
         IN  shorter \cup {Append(ns, k) : ns \in shorter, k \in NoteKinds}

EmptyManifest == [s \in FolderNames |-> [present |-> FALSE, ids |-> <<>>]]

IdleOrg ==
    [state |-> "idle", notes |-> <<>>, base |-> NoId, i |-> 1,
     manifest |-> EmptyManifest, existed |-> {}, calls |-> <<>>, uploads |-> <<>>]

AddToManifestFront(manifest, subject, file_id) ==
    IF ~manifest[subject].present
    THEN [manifest EXCEPT ![subject] = [present |-> TRUE, ids |-> <<file_id>>]]
    ELSE [manifest EXCEPT ![subject].ids = <<file_id>> \o @]

\* organized_files[subject].append(file_id), the key made on first use
AddToManifest(manifest, subject, file_id) ==
    IF ~manifest[subject].present
    THEN [manifest EXCEPT ![subject] = [present |-> TRUE, ids |-> <<file_id>>]]
    ELSE [manifest EXCEPT ![subject].ids = Append(@, file_id)]

OrganizeNoteNoExistsCheck(note, exists, base_folder_id, env, id) ==
    LET g == GetOrCreateFolder(note.subject, base_folder_id, env.folder, id)
    IN  IF g.raised \/ g.ret = NoId
        THEN [skipped |-> FALSE, raised |-> g.raised, file_id |-> NoId,
              newFolders |-> g.new, newFiles |-> {}, calls |-> g.calls,
              vanished |-> FALSE]
        ELSE LET u == UploadFile(exists, g.ret,
                                 <<note.subject, "timestamp", note.image_path>>,
                                 env.upload, IF g.new = {} THEN id ELSE id + 1)
             IN  [skipped |-> FALSE, raised |-> u.raised, file_id |-> u.ret,
                  newFolders |-> g.new, newFiles |-> u.new,
                  calls |-> g.calls \cup u.calls, vanished |-> FALSE]

\* the body of the loop for one note: exists is os.path.exists(image_path),
\* env is how the remote calls end and whether the file is removed from the
\* disk between the check of the loop and the check of upload_file
OrganizeNote(note, exists, base_folder_id, env, id) ==
    IF note.image_path = NoPath \/ ~exists
    THEN [skipped |-> TRUE, raised |-> FALSE, file_id |-> NoId,
          newFolders |-> {}, newFiles |-> {}, calls |-> {}, vanished |-> FALSE]
    ELSE LET g == GetOrCreateFolder(note.subject, base_folder_id, env.folder, id)
         IN  IF g.raised \/ g.ret = NoId
             THEN [skipped |-> FALSE, raised |-> g.raised, file_id |-> NoId,
                   newFolders |-> g.new, newFiles |-> {}, calls |-> g.calls,
                   vanished |-> FALSE]
             ELSE LET u == UploadFile(~env.vanishes, g.ret,
                                      <<note.subject, "timestamp", note.image_path>>,
                                      env.upload, IF g.new = {} THEN id ELSE id + 1)
                  IN  [skipped |-> FALSE, raised |-> u.raised, file_id |-> u.ret,
                       newFolders |-> g.new, newFiles |-> u.new,
                       calls |-> g.calls \cup u.calls, vanished |-> env.vanishes]

\* a caller calls organize_notes_by_subject(notes_data, base_folder_id)
OrganizeBegin ==
    /\ org.state = "idle"
    /\ \E notes \in NotesOf(MaxNotes), base \in Parents :
         org' = [state |-> "running", notes |-> notes, base |-> base, i |-> 1,
                 manifest |-> EmptyManifest, existed |-> existing,
                 calls |-> [k \in 1..Len(notes) |-> {}], uploads |-> <<>>]
    /\ lastOp' = NoOp
    /\ prevOp' = NoOp
    /\ UNCHANGED <<folders, files, nextId, existing>>
    /\ UNCHANGED <<classifierVars, pipelineVars, coordVars>>

\* one iteration of its loop
OrganizeStep ==
    /\ org.state = "running"
    /\ org.i <= Len(org.notes)
    /\ LET note == org.notes[org.i]
       IN  \E env \in [folder : FolderEnvs(folders, note.subject, org.base),
                       vanishes : BOOLEAN, upload : CallOutcomes] :
             LET r == OrganizeNote(note, note.image_path \in existing, org.base,
                                   env, nextId)
             IN  /\ nextId + Cardinality(r.newFolders) + Cardinality(r.newFiles)
                        <= MaxId + 1
                 /\ folders' = folders \cup r.newFolders
                 /\ files' = files \cup r.newFiles
                 /\ nextId' = nextId + Cardinality(r.newFolders) + Cardinality(r.newFiles)
                 /\ existing' = IF r.vanished THEN existing \ {note.image_path}
                                ELSE existing
                 /\ org' = [org EXCEPT
                       !.state = IF r.raised THEN "raised" ELSE "running",
                       !.i = IF r.raised THEN @ ELSE @ + 1,
                       !.manifest = IF r.file_id # NoId
                                    THEN AddToManifest(@, note.subject, r.file_id)
                                    ELSE @,
                       !.calls = [@ EXCEPT ![org.i] = r.calls],
                       !.uploads = IF r.newFiles # {}
                                   THEN Append(@, [note |-> org.i,
                                                   subject |-> note.subject,
                                                   id |-> r.file_id])
                                   ELSE @]
    /\ UNCHANGED <<lastOp, prevOp>>
    /\ UNCHANGED <<classifierVars, pipelineVars, coordVars>>

\* it returns organized_files
OrganizeReturn ==
    /\ org.state = "running"
    /\ org.i > Len(org.notes)
    /\ org' = [org EXCEPT !.state = "done"]
    /\ lastOp' = [NoOp EXCEPT !.op = "organize_notes_by_subject"]
    /\ UNCHANGED <<prevOp, folders, files, nextId, existing>>
    /\ UNCHANGED <<classifierVars, pipelineVars, coordVars>>

----------------------------------------------------------------------------
(* What happens outside the program                                        *)

\* another client of the store creates a folder
ExternalCreateFolder ==
    /\ nextId <= MaxId
    /\ \E folder_name \in FolderNames, parent \in Parents :
         folders' = folders \cup {[id |-> nextId, name |-> folder_name,
                                   parent |-> parent, trashed |-> FALSE]}
    /\ nextId' = nextId + 1
    /\ prevOp' = NoOp
    /\ lastOp' = NoOp
    /\ UNCHANGED <<files, existing, org>>
    /\ UNCHANGED <<classifierVars, pipelineVars, coordVars>>

\* another client of the store moves a folder to the trash
ExternalTrashFolder ==
    /\ \E f \in folders :
         /\ ~f.trashed
         /\ f.id # 1
         /\ folders' = (folders \ {f}) \cup {[f EXCEPT !.trashed = TRUE]}
    /\ prevOp' = NoOp
    /\ lastOp' = NoOp
    /\ UNCHANGED <<files, nextId, existing, org>>
    /\ UNCHANGED <<classifierVars, pipelineVars, coordVars>>

\* an image file is removed from the local disk
RemoveLocalFile ==
    /\ \E p \in existing : existing' = existing \ {p}
    /\ UNCHANGED <<folders, files, nextId, lastOp, prevOp, org>>
    /\ UNCHANGED <<classifierVars, pipelineVars, coordVars>>

\* the store when the program starts: the folder with id 1 is the base
\* folder a caller may name, and an earlier run left a subject folder in it
InitDrive ==
    /\ folders = {[id |-> 1, name |-> "OrganizedNotes", parent |-> NoId, trashed |-> FALSE],
                  [id |-> 2, name |-> "biology", parent |-> 1, trashed |-> FALSE]}
    /\ files = {}
    /\ nextId = 3
    /\ existing \in SUBSET ImagePaths
    /\ lastOp = NoOp
    /\ prevOp = NoOp
    /\ org = IdleOrg

----------------------------------------------------------------------------
(* NotesOrganizer.get_processing_summary                                   *)

MaxResults == 2

\* the results a caller may hand to get_processing_summary
SummaryInputs ==
    [image_path : {"a.jpg"}, text : {<<>>}, subject : FolderNames,
     confidence : {0, 50}, ocr_confidence : {0, 80},
     status : {"success", "no_text_extracted"}]

RECURSIVE SummaryInputsOf(_)
SummaryInputsOf(n) ==
    IF n = 0 THEN {<<>>}
    ELSE LET shorter == SummaryInputsOf(n - 1)
         IN  shorter \cup {Append(rs, k) : rs \in shorter, k \in SummaryInputs}

\* sum(r[field] for r in processing_results)
RECURSIVE SumOf(_, _)
SumOf(processing_results, field) ==
    IF processing_results = <<>> THEN 0
    ELSE Head(processing_results)[field] + SumOf(Tail(processing_results), field)

\* a / b of Python, kept exact: the quotient as numerator and denominator
Quotient(a, b) == [num |-> a, den |-> b]

\* the 0 of "... if total_images > 0 else 0"
Zero == [num |-> 0, den |-> 1]

GetProcessingSummaryClassifiedSuccesses(processing_results) ==
    LET total_images == Len(processing_results)
    IN  [total_images |-> total_images,
         successful_extractions |->
             Cardinality({k \in 1..total_images : processing_results[k].status = "success"}),
         successful_classifications |->
             Cardinality({k \in 1..total_images : processing_results[k].status = "success" /\ processing_results[k].subject # Unknown}),
         subject_distribution |->
             [subj \in {processing_results[k].subject : k \in 1..total_images} |->
                 Cardinality({k \in 1..total_images : processing_results[k].subject = subj})],
         average_ocr_confidence |->
             IF total_images > 0
             THEN Quotient(SumOf(processing_results, "ocr_confidence"), total_images)
             ELSE Zero,
         average_classification_confidence |->
             IF total_images > 0
             THEN Quotient(SumOf(processing_results, "confidence"), total_images)
             ELSE Zero]

GetProcessingSummaryMeanOfSuccesses(processing_results) ==
    LET total_images == Len(processing_results)
        successes == SelectSeq(processing_results, LAMBDA r : r.status = "success")
    IN  [total_images |-> total_images,
         successful_extractions |-> Len(successes),
         successful_classifications |->
             Cardinality({k \in 1..total_images : processing_results[k].subject # Unknown}),
         subject_distribution |->
             [subj \in {processing_results[k].subject : k \in 1..total_images} |->
                 Cardinality({k \in 1..total_images : processing_results[k].subject = subj})],
         average_ocr_confidence |->
             IF Len(successes) > 0
             THEN Quotient(SumOf(successes, "ocr_confidence"), Len(successes))
             ELSE Zero,
         average_classification_confidence |->
             IF Len(successes) > 0
             THEN Quotient(SumOf(successes, "confidence"), Len(successes))
             ELSE Zero]

\* get_processing_summary
GetProcessingSummary(processing_results) ==
    LET total_images == Len(processing_results)
    IN  [total_images |-> total_images,
         successful_extractions |->
             Cardinality({k \in 1..total_images : processing_results[k].status = "success"}),
         successful_classifications |->
             Cardinality({k \in 1..total_images : processing_results[k].subject # Unknown}),
         subject_distribution |->
             [subj \in {processing_results[k].subject : k \in 1..total_images} |->
                 Cardinality({k \in 1..total_images : processing_results[k].subject = subj})],
         average_ocr_confidence |->
             IF total_images > 0
             THEN Quotient(SumOf(processing_results, "ocr_confidence"), total_images)
             ELSE Zero,
         average_classification_confidence |->
             IF total_images > 0
             THEN Quotient(SumOf(processing_results, "confidence"), total_images)
             ELSE Zero]

\* a caller calls get_processing_summary(results)
GetProcessingSummaryCall ==
    /\ summary = <<>>
    /\ summary' = <<GetProcessingSummary(results)>>
    /\ UNCHANGED <<classifierVars, pipelineVars, driveVars, scan, run>>

\* a caller holds a list of results
InitSummary ==
    /\ results \in SummaryInputsOf(MaxResults)
    /\ stages = <<>>
    /\ scan = <<>>
    /\ summary = <<>>
    /\ run = None

----------------------------------------------------------------------------
(* NotesOrganizer (src/notes_organizer.py): one call at a time, a step of  *)
(* run for each call it makes to a collaborator                            *)

\* the call in progress.  entry is the method the caller invoked and pc the
\* position in it; the other fields are arguments and locals of the methods
\* on the way; calls is the set of remote calls organize_and_upload made
\* itself, kept to tell what it did, and returned is <<>> or holds the one
\* dictionary process_directory returned
NewRun(entry) ==
    [entry |-> entry, pc |-> entry,
     argv |-> None, kind |-> None, credentials |-> "usable", exit |-> None,
     file_extensions |-> <<>>, caseSensitive |-> TRUE,
     confidence_threshold |-> DefaultThreshold, base_folder_id |-> NoId,
     image_paths |-> <<>>, current |-> 0, envs |-> <<>>, log |-> <<>>,
     organized_notes_folder_id |-> NoId, calls |-> {},
     upload_results |-> EmptyManifest, returned |-> <<>>]

MaxBatch == 2

\* what the collaborators do for one image of a batch: the file is read when
\* it is on disk, the engine raises, finds nothing or finds a text long
\* enough to classify, and the model ranks biology first or raises
BatchEnvironments(image_path) ==
    {env \in Environments(image_path) :
        /\ env.readable = (image_path \in existing)
        /\ env.readableAgain = env.readable
        /\ env.ocr \in {[raises |-> TRUE, raw |-> <<>>],
                        [raises |-> FALSE, raw |-> <<" ", "NL">>],
                        [raises |-> FALSE,
                         raw |-> <<"A", "b", "c", "d", "e", " ", "a", "b", "c", "d">>]}
        /\ env.data = [raises |-> FALSE, conf |-> <<-1, 90, 70>>]
        /\ env.outcome \in {[raises |-> TRUE, top |-> None, score |-> 0],
                            [raises |-> FALSE, top |-> "biology", score |-> 50]}}

PrependResult(processing_results, result) == <<result>> \o processing_results

\* results.append(result)
AppendResult(processing_results, result) == Append(processing_results, result)

\* process_multiple_images(image_paths, confidence_threshold) begins: results = []
ProcessMultipleImagesStart ==
    /\ run.pc = "process_multiple_images"
    /\ results' = <<>>
    /\ stages' = <<>>
    /\ run' = [run EXCEPT !.pc = "processing", !.current = 0, !.envs = <<>>,
                          !.log = <<>>]
    /\ UNCHANGED <<classifierVars, driveVars, scan, summary>>

\* the loop takes the next image_path and calls process_single_image
ProcessImageStart ==
    /\ run.pc = "processing"
    /\ run.current = 0
    /\ Len(results) < Len(run.image_paths)
    /\ run' = [run EXCEPT
          !.current = Len(results) + 1,
          !.log = Append(@, [event |-> "start", image |-> Len(results) + 1])]
    /\ UNCHANGED <<classifierVars, pipelineVars, driveVars, scan, summary>>

\* process_single_image returns and the loop appends its result
ProcessImageFinish ==
    /\ run.pc = "processing"
    /\ run.current # 0
    /\ LET image_path == run.image_paths[run.current]
       IN  \E env \in BatchEnvironments(image_path) :
             LET p == ProcessSingleImage(image_path, run.confidence_threshold,
                                         classifier, env)
             IN  /\ results' = AppendResult(results, p.result)
                 /\ stages' = Append(stages, p.stages)
                 /\ run' = [run EXCEPT
                       !.current = 0,
                       !.envs = Append(@, env),
                       !.log = Append(@, [event |-> "end", image |-> run.current])]
    /\ UNCHANGED <<classifierVars, driveVars, scan, summary>>

\* the loop is over: process_multiple_images returns results
ProcessMultipleImagesReturn ==
    /\ run.pc = "processing"
    /\ run.current = 0
    /\ Len(results) >= Len(run.image_paths)
    /\ run' = [run EXCEPT !.pc = IF run.entry = "process_multiple_images"
                                  THEN "processed"
                                  ELSE "organize_and_upload"]
    /\ UNCHANGED <<classifierVars, pipelineVars, driveVars, scan, summary>>

RECURSIVE PathsOf(_)
PathsOf(n) ==
    IF n = 0 THEN {<<>>}
    ELSE LET shorter == PathsOf(n - 1)
         IN  shorter \cup {Append(ps, p) : ps \in shorter, p \in ImagePaths}

\* a caller calls process_multiple_images(image_paths, confidence_threshold)
InitProcessMultipleImages ==
    /\ results = <<>>
    /\ stages = <<>>
    /\ \E image_paths \in PathsOf(MaxBatch), threshold \in Thresholds :
         run = [NewRun("process_multiple_images") EXCEPT
                   !.image_paths = image_paths,
                   !.confidence_threshold = threshold]
    /\ scan = <<>>
    /\ summary = <<>>

\* valid_results = [result for result in processing_results if result['status'] == 'success']
ValidResults(processing_results) ==
    SelectSeq(processing_results, LAMBDA r : r.status = "success")

\* organize_and_upload, up to its call of organize_notes_by_subject
OrganizeAndUploadStart ==
    /\ run.pc = "organize_and_upload"
    /\ LET valid_results == ValidResults(results)
       IN  IF valid_results = <<>>
           THEN /\ run' = [run EXCEPT !.pc = "uploaded", !.upload_results = EmptyManifest]
                /\ UNCHANGED <<folders, nextId, org>>
           ELSE \E env \in FolderEnvs(folders, "OrganizedNotes", run.base_folder_id) :
                  LET g == GetOrCreateFolder("OrganizedNotes", run.base_folder_id,
                                             env, nextId)
                  IN  /\ nextId + Cardinality(g.new) <= MaxId + 1
                      /\ folders' = folders \cup g.new
                      /\ nextId' = NextIdAfter(g.new)
                      /\ run' = [run EXCEPT
                            !.pc = IF g.raised THEN "raised"
                                   ELSE IF g.ret = NoId THEN "uploaded"
                                   ELSE "organizing",
                            !.organized_notes_folder_id = g.ret,
                            !.calls = g.calls,
                            !.upload_results = EmptyManifest]
                      /\ org' = IF g.raised \/ g.ret = NoId
                                THEN org
                                ELSE [state |-> "running", notes |-> valid_results,
                                      base |-> g.ret, i |-> 1,
                                      manifest |-> EmptyManifest, existed |-> existing,
                                      calls |-> [k \in 1..Len(valid_results) |-> {}],
                                      uploads |-> <<>>]
    /\ UNCHANGED <<files, existing, lastOp, prevOp>>
    /\ UNCHANGED <<classifierVars, pipelineVars, scan, summary>>

\* organize_notes_by_subject has returned, or has let an exception through:
\* organize_and_upload returns its mapping, or lets the exception through
OrganizeAndUploadReturn ==
    /\ run.pc = "organizing"
    /\ org.state \in {"done", "raised"}
    /\ run' = [run EXCEPT
          !.pc = IF org.state = "done" THEN "uploaded" ELSE "raised",
          !.upload_results = IF org.state = "done" THEN org.manifest ELSE @]
    /\ UNCHANGED <<classifierVars, pipelineVars, driveVars, scan, summary>>

\* the files of the directory, in the order the directory lists them, and
\* the characters of their names
DirFiles == <<"a.jpg", "b.JPG", "c.Jpg">>

NameChars(name) ==
    CASE name = "a.jpg" -> <<"a", ".", "j", "p", "g">>
      [] name = "b.JPG" -> <<"b", ".", "J", "P", "G">>
      [] name = "c.Jpg" -> <<"c", ".", "J", "p", "g">>
      [] OTHER -> <<>>

\* the letters of the names and patterns, lower case and upper case
CasePairs ==
    { <<"a", "A">>, <<"b", "B">>, <<"c", "C">>, <<"e", "E">>, <<"f", "F">>,
      <<"g", "G">>, <<"i", "I">>, <<"j", "J">>, <<"m", "M">>, <<"n", "N">>,
      <<"p", "P">>, <<"t", "T">> }

\* str.upper() and, for os.path.normcase where it folds case, str.lower()
UpperCase(text) ==
    [k \in 1..Len(text) |->
        IF \E pair \in CasePairs : pair[1] = text[k]
        THEN (CHOOSE pair \in CasePairs : pair[1] = text[k])[2]
        ELSE text[k]]
LowerCase(text) ==
    [k \in 1..Len(text) |->
        IF \E pair \in CasePairs : pair[2] = text[k]
        THEN (CHOOSE pair \in CasePairs : pair[2] = text[k])[1]
        ELSE text[k]]

\* file_extensions = ['*.jpg', '*.jpeg', '*.png', '*.bmp', '*.tiff', '*.tif']
DefaultExtensions ==
    << <<"*", ".", "j", "p", "g">>, <<"*", ".", "j", "p", "e", "g">>,
       <<"*", ".", "p", "n", "g">>, <<"*", ".", "b", "m", "p">>,
       <<"*", ".", "t", "i", "f", "f">>, <<"*", ".", "t", "i", "f">> >>

\* the extension lists a caller passes: the default, a pattern already in
\* upper case, and two patterns that overlap
ExtensionLists ==
    { DefaultExtensions,
      << <<"*", ".", "J", "P", "G">> >>,
      << <<"*", ".", "j", "p", "g">>, <<"*", "p", "g">> >> }

\* fnmatch of a name against a pattern "*" + literal: the name ends with the
\* literal, compared as written where matching is case-sensitive (POSIX) and
\* after normcase where it is not (Windows)
Fnmatch(name, pattern, caseSensitive) ==
    LET literal == Tail(pattern)
        chars == NameChars(name)
        ending == SubSeq(chars, Len(chars) - Len(literal) + 1, Len(chars))
    IN  /\ Len(literal) <= Len(chars)
        /\ IF caseSensitive
           THEN ending = literal
           ELSE LowerCase(ending) = LowerCase(literal)

\* glob.glob(os.path.join(directory_path, pattern))
Glob(pattern, onDisk, caseSensitive) ==
    SelectSeq(DirFiles, LAMBDA name : /\ name \in onDisk
                                      /\ Fnmatch(name, pattern, caseSensitive))

RECURSIVE EnumerateAsWritten(_, _, _)
EnumerateAsWritten(file_extensions, onDisk, caseSensitive) ==
    IF file_extensions = <<>> THEN <<>>
    ELSE Glob(Head(file_extensions), onDisk, caseSensitive)
         \o EnumerateAsWritten(Tail(file_extensions), onDisk, caseSensitive)

\* the loop of process_directory over file_extensions: for each pattern the
\* matches of the pattern, then the matches of pattern.upper()
RECURSIVE Enumerate(_, _, _)
Enumerate(file_extensions, onDisk, caseSensitive) ==
    IF file_extensions = <<>> THEN <<>>
    ELSE Glob(Head(file_extensions), onDisk, caseSensitive)
         \o Glob(UpperCase(Head(file_extensions)), onDisk, caseSensitive)
         \o Enumerate(Tail(file_extensions), onDisk, caseSensitive)

\* the {} process_directory returns when it finds no image: a dictionary
\* without keys
EmptyDictionary == [keys |-> {}, total_images |-> 0, successful_uploads |-> 0]

\* process_directory(directory_path, file_extensions, confidence_threshold,
\* base_folder_id), up to its call of process_multiple_images
ProcessDirectoryStart ==
    /\ run.pc = "process_directory"
    /\ LET image_paths == Enumerate(run.file_extensions, existing, run.caseSensitive)
       IN  run' = [run EXCEPT
              !.image_paths = image_paths,
              !.pc = IF image_paths = <<>> THEN "returned"
                     ELSE "process_multiple_images",
              !.returned = IF image_paths = <<>> THEN <<EmptyDictionary>> ELSE @]
    /\ UNCHANGED <<classifierVars, pipelineVars, driveVars, scan, summary>>

\* sum(len(files) for files in upload_results.values())
SuccessfulUploads(upload_results) ==
    LET keys == {subj \in DOMAIN upload_results : upload_results[subj].present}
        count[ks \in SUBSET keys] ==
            IF ks = {} THEN 0
            ELSE LET k == CHOOSE k \in ks : TRUE
                 IN  Len(upload_results[k].ids) + count[ks \ {k}]
    IN  count[keys]

\* organize_and_upload has returned: process_directory returns its dictionary
ProcessDirectoryReturn ==
    /\ run.pc = "uploaded"
    /\ run.kind = "dir"
    /\ run' = [run EXCEPT
          !.pc = "returned",
          !.returned = <<[keys |-> {"processing_results", "upload_results",
                                    "total_images", "successful_uploads"},
                          total_images |-> Len(run.image_paths),
                          successful_uploads |->
                              SuccessfulUploads(run.upload_results)]>>]
    /\ UNCHANGED <<classifierVars, pipelineVars, driveVars, scan, summary>>

\* a caller calls process_directory on a directory of images
InitProcessDirectory ==
    /\ results = <<>>
    /\ stages = <<>>
    /\ existing \in SUBSET {DirFiles[k] : k \in 1..Len(DirFiles)}
    /\ \E file_extensions \in ExtensionLists, caseSensitive \in BOOLEAN :
         /\ Len(Enumerate(file_extensions, existing, caseSensitive)) <= MaxBatch
         /\ run = [NewRun("process_directory") EXCEPT
                      !.kind = "dir",
                      !.file_extensions = file_extensions,
                      !.caseSensitive = caseSensitive]
    /\ scan = <<>>
    /\ summary = <<>>

\* os.path.isfile(args.input) and os.path.isdir(args.input): the directory of
\* the model is "notes"
PathKind(argv, onDisk) ==
    IF argv \in onDisk THEN "file"
    ELSE IF argv = "notes" THEN "dir"
    ELSE "neither"

MainDispatchUnchecked(credentials, kind) ==
    IF credentials # "usable"
    THEN [pc |-> "raised", exit |-> None]
    ELSE CASE kind = "file" -> [pc |-> "process_single_image", exit |-> None]
           [] OTHER -> [pc |-> "process_directory", exit |-> None]

\* main, from the construction of NotesOrganizer to the branch on args.input:
\* GoogleDriveManager() raises when no credentials can be had, and a path
\* that is neither a file nor a directory makes main return 1
MainDispatch(credentials, kind) ==
    IF credentials # "usable"
    THEN [pc |-> "raised", exit |-> None]
    ELSE CASE kind = "file" -> [pc |-> "process_single_image", exit |-> None]
           [] kind = "dir" -> [pc |-> "process_directory", exit |-> None]
           [] OTHER -> [pc |-> "exit", exit |-> 1]

\* main() is called with args.input = argv
MainStart ==
    /\ run.pc = "main"
    /\ LET d == MainDispatch(run.credentials, PathKind(run.argv, existing))
       IN  run' = [run EXCEPT !.pc = d.pc, !.exit = d.exit,
                              !.file_extensions = DefaultExtensions]
    /\ UNCHANGED <<classifierVars, pipelineVars, driveVars, scan, summary>>

\* result = organizer.process_single_image(args.input, args.confidence)
MainProcessSingleImage ==
    /\ run.pc = "process_single_image"
    /\ \E env \in BatchEnvironments(run.argv) :
         LET p == ProcessSingleImage(run.argv, run.confidence_threshold, classifier, env)
         IN  /\ results' = <<p.result>>
             /\ stages' = <<p.stages>>
             /\ run' = [run EXCEPT !.pc = "organize_and_upload",
                                   !.image_paths = <<run.argv>>,
                                   !.envs = <<env>>]
    /\ UNCHANGED <<classifierVars, driveVars, scan, summary>>

\* main reaches its last line and returns 0; after process_directory it
\* prints the summary when the directory gave results
MainReturn ==
    /\ \/ run.pc = "uploaded" /\ run.kind = "file"
       \/ run.pc = "returned"
    /\ run' = [run EXCEPT !.pc = "exit", !.exit = 0]
    /\ summary' = IF run.pc = "returned" /\ run.returned # <<EmptyDictionary>>
                  THEN <<GetProcessingSummary(results)>>
                  ELSE summary
    /\ UNCHANGED <<classifierVars, pipelineVars, driveVars, scan>>

\* an exception leaves main: the interpreter prints the traceback and the
\* process ends with status 1
MainAbort ==
    /\ run.pc = "raised"
    /\ run' = [run EXCEPT !.pc = "crashed", !.exit = 1]
    /\ UNCHANGED <<classifierVars, pipelineVars, driveVars, scan, summary>>

\* the command line: an image, the directory, or a path that does not exist
Arguments == {"a.jpg", "notes", "nowhere"}

\* the program is started from the command line
InitMain ==
    /\ results = <<>>
    /\ stages = <<>>
    /\ existing \in SUBSET {DirFiles[k] : k \in 1..Len(DirFiles)}
    /\ \E argv \in Arguments, credentials \in {"usable", "missing"},
          caseSensitive \in BOOLEAN :
         /\ Len(Enumerate(DefaultExtensions, existing, caseSensitive)) <= MaxBatch
         /\ run = [NewRun("main") EXCEPT
                      !.argv = argv,
                      !.kind = PathKind(argv, existing),
                      !.credentials = credentials,
                      !.caseSensitive = caseSensitive]
    /\ scan = <<>>
    /\ summary = <<>>

\* the store when process_directory or main starts: an earlier run left the
\* OrganizedNotes folder and a subject folder in it
InitStore ==
    /\ folders = {[id |-> 1, name |-> "OrganizedNotes", parent |-> NoId, trashed |-> FALSE],
                  [id |-> 2, name |-> "biology", parent |-> 1, trashed |-> FALSE]}
    /\ files = {}
    /\ nextId = 3
    /\ lastOp = NoOp
    /\ prevOp = NoOp
    /\ org = IdleOrg

\* the results a caller may hand to organize_and_upload or to
\* get_processing_summary: any list of result dictionaries
GivenResults ==
    [image_path : ImagePaths, text : {<<>>}, subject : FolderNames,
     confidence : {0}, ocr_confidence : {0},
     status : {"success", "no_text_extracted"}]

RECURSIVE ResultsOf(_)
ResultsOf(n) ==
    IF n = 0 THEN {<<>>}
    ELSE LET shorter == ResultsOf(n - 1)
         IN  shorter \cup {Append(rs, k) : rs \in shorter, k \in GivenResults}

\* a caller calls organize_and_upload(processing_results, base_folder_id)
InitOrganizeAndUpload ==
    /\ results \in ResultsOf(MaxNotes)
    /\ stages = <<>>
    /\ \E base \in Parents :
         run = [NewRun("organize_and_upload") EXCEPT !.base_folder_id = base]
    /\ scan = <<>>
    /\ summary = <<>>

----------------------------------------------------------------------------
(* Specifications                                                          *)

IdleClassifier ==
    /\ cuda = FALSE
    /\ classifier = "pipeline"
    /\ loadAttempts = <<"cpu">>
    /\ subjects = DefaultSubjects
    /\ input = [text |-> <<>>, threshold |-> DefaultThreshold]
    /\ lastCall = NoCall

IdleDrive ==
    /\ folders = {}
    /\ files = {}
    /\ nextId = 1
    /\ existing = ImagePaths
    /\ lastOp = NoOp
    /\ prevOp = NoOp
    /\ org = IdleOrg

\* no OCR probe, no summary and no NotesOrganizer call in progress
IdleCoordinator ==
    /\ scan = <<>>
    /\ summary = <<>>
    /\ run = None

\* the classifier alone
ClassifierInit == InitClassifierWithInput /\ InitPipeline /\ IdleDrive /\ IdleCoordinator
ClassifierNext ==
    \/ ClassifyTextCall
    \/ GetClassificationConfidenceCall
    \/ AddCustomSubject
ClassifierSpec == ClassifierInit /\ [][ClassifierNext]_vars

\* the coordinator over the extractor and the classifier
PipelineInit ==
    /\ InitClassifier
    /\ InitPipeline
    /\ IdleDrive
    /\ IdleCoordinator
PipelineNext ==
    \/ ProcessSingleImageCall
    \/ RemoveLocalFile
PipelineSpec == PipelineInit /\ [][PipelineNext]_vars

\* the folder and file operations of the storage organizer over the remote store
DriveInit == IdleClassifier /\ InitPipeline /\ InitDrive /\ IdleCoordinator
DriveNext ==
    \/ FindFolderCall
    \/ CreateFolderCall
    \/ GetOrCreateFolderCall
    \/ UploadFileCall
    \/ ExternalCreateFolder
    \/ ExternalTrashFolder
    \/ RemoveLocalFile
DriveSpec == DriveInit /\ [][DriveNext]_vars

\* organize_notes_by_subject over the remote store
OrganizeNext ==
    \/ OrganizeBegin
    \/ OrganizeStep
    \/ OrganizeReturn
    \/ ExternalCreateFolder
OrganizeSpec == DriveInit /\ [][OrganizeNext]_vars


\* process_multiple_images over the extractor and the classifier
BatchInit == InitClassifier /\ InitDrive /\ InitProcessMultipleImages
BatchNext ==
    \/ ProcessMultipleImagesStart
    \/ ProcessImageStart
    \/ ProcessImageFinish
    \/ ProcessMultipleImagesReturn
BatchSpec == BatchInit /\ [][BatchNext]_vars

\* process_directory: enumeration, processing, upload
DirectoryInit == IdleClassifier /\ InitStore /\ InitProcessDirectory
DirectoryNext ==
    \/ ProcessDirectoryStart
    \/ ProcessMultipleImagesStart
    \/ ProcessImageStart
    \/ ProcessImageFinish
    \/ ProcessMultipleImagesReturn
    \/ OrganizeAndUploadStart
    \/ OrganizeStep
    \/ OrganizeReturn
    \/ OrganizeAndUploadReturn
    \/ ProcessDirectoryReturn
DirectorySpec == DirectoryInit /\ [][DirectoryNext]_vars

\* the command-line program
MainInit == IdleClassifier /\ InitStore /\ InitMain
MainNext ==
    \/ MainStart
    \/ MainProcessSingleImage
    \/ ProcessDirectoryStart
    \/ ProcessMultipleImagesStart
    \/ ProcessImageStart
    \/ ProcessImageFinish
    \/ ProcessMultipleImagesReturn
    \/ OrganizeAndUploadStart
    \/ OrganizeStep
    \/ OrganizeReturn
    \/ OrganizeAndUploadReturn
    \/ ProcessDirectoryReturn
    \/ MainReturn
    \/ MainAbort
MainSpec == MainInit /\ [][MainNext]_vars

\* the text extractor alone
OcrInit ==
    /\ IdleClassifier /\ InitPipeline /\ IdleDrive
    /\ InitScan
    /\ summary = <<>>
    /\ run = None
OcrNext ==
    \/ CleanTextCall
    \/ CleanTextAgainCall
    \/ GetTextConfidenceCall
OcrSpec == OcrInit /\ [][OcrNext]_vars

\* organize_and_upload over the remote store
UploadInit == IdleClassifier /\ InitDrive /\ InitOrganizeAndUpload
UploadNext ==
    \/ OrganizeAndUploadStart
    \/ OrganizeStep
    \/ OrganizeReturn
    \/ OrganizeAndUploadReturn
UploadSpec == UploadInit /\ [][UploadNext]_vars

\* get_processing_summary over any list of results
SummaryInit == IdleClassifier /\ IdleDrive /\ InitSummary
SummaryNext == GetProcessingSummaryCall
SummarySpec == SummaryInit /\ [][SummaryNext]_vars

----------------------------------------------------------------------------
(* Properties of process_single_image, under PipelineSpec                  *)

\* C1: an image whose extraction yields empty or whitespace-only text (a
\* missing or unreadable file and a failing engine included: extract_text
\* returns "" for them) gets status no_text_extracted, text "", subject
\* "unknown" and both confidences 0, and neither get_text_confidence nor
\* classify_text nor the model runs for it.
C1_NoTextExtracted ==
    \A i \in 1..Len(results) :
        /\ (~stages[i].readable \/ stages[i].ocrRaises) => stages[i].extracted = <<>>
        /\ Strip(stages[i].extracted) = <<>> =>
              /\ results[i].status = "no_text_extracted"
              /\ results[i].text = <<>>
              /\ results[i].subject = Unknown
              /\ results[i].confidence = 0
              /\ results[i].ocr_confidence = 0
              /\ stages[i].confidence = 0
              /\ stages[i].classify = 0
              /\ stages[i].model = 0

\* C1 happens: the engine read the image and returned only whitespace
C1_Witness ==
    \E i \in 1..Len(results) :
        /\ stages[i].readable
        /\ ~stages[i].ocrRaises
        /\ stages[i].raw # <<>>
        /\ results[i].status = "no_text_extracted"

\* C2: a result has status success exactly when its text is not blank, and
\* an image with extracted text gets status success with that text whatever
\* the classifier and the OCR-confidence call did.
C2_SuccessIffText ==
    \A i \in 1..Len(results) :
        /\ results[i].status = "success" <=> Strip(results[i].text) # <<>>
        /\ Strip(stages[i].extracted) # <<>> =>
              /\ results[i].status = "success"
              /\ results[i].text = stages[i].extracted

\* C2 happens: the model raised and the engine's data call failed, and the
\* result is a success with subject "unknown" and both confidences 0
C2_Witness ==
    \E i \in 1..Len(results) :
        /\ results[i].status = "success"
        /\ stages[i].model = 1
        /\ stages[i].modelRaises
        /\ stages[i].dataRaises
        /\ results[i].subject = Unknown
        /\ results[i].confidence = 0
        /\ results[i].ocr_confidence = 0


----------------------------------------------------------------------------
(* Properties of TextClassifier, under ClassifierSpec                      *)

\* the last call was classify_text, it invoked the model and the model answered
ModelAnswered ==
    /\ lastCall.op = "classify_text"
    /\ lastCall.invoked
    /\ ~lastCall.outcome.raises

\* C3 as stated: when the model is invoked, classify_text returns the model's
\* top-ranked label if and only if the top score is at least the threshold
\* (a score equal to the threshold is accepted), and otherwise returns
\* ("unknown", top score).
C3_TopLabelIffAtLeastThreshold ==
    ModelAnswered =>
        /\ lastCall.label = lastCall.outcome.top
              <=> lastCall.outcome.score >= lastCall.threshold
        /\ lastCall.outcome.score < lastCall.threshold => lastCall.label = Unknown
        /\ lastCall.score = lastCall.outcome.score

\* C3 as amended: when the model is invoked, classify_text returns (top label,
\* top score) if the top score is at least the threshold (equality included)
\* and ("unknown", top score) otherwise; the label it returns is the top label
\* if and only if the score reaches the threshold, unless the top label is
\* itself the subject "unknown".
C3_ThresholdRule ==
    ModelAnswered =>
        /\ lastCall.outcome.score >= lastCall.threshold =>
              /\ lastCall.label = lastCall.outcome.top
              /\ lastCall.score = lastCall.outcome.score
        /\ lastCall.outcome.score < lastCall.threshold =>
              /\ lastCall.label = Unknown
              /\ lastCall.score = lastCall.outcome.score
        /\ lastCall.outcome.top # Unknown =>
              (lastCall.label = lastCall.outcome.top
                  <=> lastCall.outcome.score >= lastCall.threshold)

\* C3 happens: a top score exactly at the threshold is accepted
C3_Witness ==
    /\ ModelAnswered
    /\ lastCall.outcome.score = lastCall.threshold
    /\ lastCall.outcome.top = "biology"
    /\ lastCall.label = "biology"
    /\ lastCall.score = lastCall.threshold

\* C4: a text whose preprocessed form has fewer than 10 characters gets
\* ("unknown", 0.0) from classify_text and the model is not invoked, whatever
\* the text and the threshold; with a loaded model, a preprocessed form of 10
\* characters or more invokes it.
C4_ShortTextNotClassified ==
    lastCall.op = "classify_text" =>
        /\ Len(PreprocessText(lastCall.text)) < 10 =>
              /\ lastCall.label = Unknown
              /\ lastCall.score = 0
              /\ ~lastCall.invoked
        /\ (classifier # None /\ Len(PreprocessText(lastCall.text)) >= 10) =>
              lastCall.invoked

\* C4 happens: a loaded classifier, a text of two words of four characters,
\* preprocessed to 9 characters, and no invocation
C4_Witness ==
    /\ lastCall.op = "classify_text"
    /\ classifier # None
    /\ Len(PreprocessText(lastCall.text)) = 9
    /\ Len(Split(lastCall.text)) = 2
    /\ ~lastCall.invoked
    /\ lastCall.label = Unknown
    /\ lastCall.score = 0

\* what a disabled classifier answers: no model invocation, score 0.0, and
\* "unknown" from classify_text
DisabledAnswers ==
    (classifier = None /\ lastCall.op # None) =>
        /\ ~lastCall.invoked
        /\ lastCall.score = 0
        /\ lastCall.op = "classify_text" => lastCall.label = Unknown

\* the fallback is on the default backend, and only a second failure disables
FallbackThenDisabled ==
    /\ Len(loadAttempts) \in {1, 2}
    /\ Len(loadAttempts) = 2 => loadAttempts[2] = "cpu"
    /\ classifier = None => Len(loadAttempts) = 2

\* C5 as stated: loading attempts the GPU backend first and falls back to the
\* default backend; after two failures the classifier is disabled and every
\* classify_text call returns ("unknown", 0.0) and every
\* get_classification_confidence call 0.0 without a model invocation.
C5_GpuFirstThenDisabled ==
    /\ loadAttempts[1] = "gpu"
    /\ FallbackThenDisabled
    /\ DisabledAnswers

\* C5 as amended: loading attempts the GPU backend first when CUDA is
\* available and the default backend otherwise, and tries the default backend
\* once more on failure; after two failures the classifier is disabled, stays
\* disabled, and every classify_text call returns ("unknown", 0.0) and every
\* get_classification_confidence call 0.0 without a model invocation.
C5_FallbackThenDisabledForGood ==
    /\ [](/\ loadAttempts[1] = (IF cuda THEN "gpu" ELSE "cpu")
          /\ FallbackThenDisabled
          /\ DisabledAnswers)
    /\ [][classifier = None => classifier' = None]_vars

\* C5 happens: a disabled classifier is asked to classify a text long enough
\* to be classified
C5_Witness ==
    /\ classifier = None
    /\ loadAttempts = <<"cpu", "cpu">>
    /\ lastCall.op = "classify_text"
    /\ Len(PreprocessText(lastCall.text)) >= 10
    /\ lastCall.label = Unknown
    /\ ~lastCall.invoked


----------------------------------------------------------------------------
(* Properties of the folder operations, under DriveSpec                    *)

\* two get_or_create_folder calls in sequence, nothing in between, with the
\* same name and parent
CalledTwice ==
    /\ prevOp.op = "get_or_create_folder"
    /\ lastOp.op = "get_or_create_folder"
    /\ prevOp.name = lastOp.name
    /\ prevOp.parent = lastOp.parent

\* C6: two get_or_create_folder calls in sequence with the same name and
\* parent return the same folder id, from any state of the store.
C6_SameIdTwice ==
    CalledTwice =>
        /\ ~prevOp.raised
        /\ ~lastOp.raised
        /\ prevOp.ret = lastOp.ret

\* C7: get_or_create_folder creates a folder only when no folder that is not
\* trashed has that name (under that parent, when one is given).
C7_CreatesOnlyWhenAbsent ==
    (lastOp.op = "get_or_create_folder" /\ lastOp.created) => ~lastOp.matched

----------------------------------------------------------------------------
(* Properties of organize_notes_by_subject, under OrganizeSpec             *)

\* C8: no failure of a remote call leaves a Storage Organizer operation as an
\* exception: organize_notes_by_subject always goes on to its next note.
C8_NoFailurePropagates ==
    /\ org.state # "raised"
    /\ ~lastOp.raised

\* the notes the loop has dealt with
Handled ==
    IF org.state = "done" THEN 1..Len(org.notes) ELSE 1..(org.i - 1)

\* the note has no image on the disk when organize_notes_by_subject is called
MissingAtCall(k) ==
    org.notes[k].image_path = NoPath \/ org.notes[k].image_path \notin org.existed

\* C9: a note whose image_path does not exist on the disk when
\* organize_notes_by_subject is called gets no manifest entry and no remote
\* call (no folder lookup, no folder creation, no upload), and the notes
\* after it are still dealt with: when the call returns, every note whose
\* image is on the disk had its folder looked up.
C9_MissingImageSkipped ==
    /\ \A k \in Handled :
          MissingAtCall(k) =>
              /\ org.calls[k] = {}
              /\ \A u \in 1..Len(org.uploads) : org.uploads[u].note # k
    /\ org.state = "done" =>
          \A k \in 1..Len(org.notes) :
              org.notes[k].image_path \in existing => "list" \in org.calls[k]

\* C9 happens: the first note's image is missing and the second note's image
\* is uploaded
C9_Witness ==
    /\ org.state = "done"
    /\ Len(org.notes) = 2
    /\ org.notes[1].image_path # NoPath
    /\ MissingAtCall(1)
    /\ org.calls[1] = {}
    /\ Len(org.uploads) = 1
    /\ org.uploads[1].note = 2

\* the ids of the successful uploads of notes with this subject, in the
\* order of the notes
UploadedUnder(subject) ==
    LET ofSubject == SelectSeq(org.uploads, LAMBDA u : u.subject = subject)
    IN  [k \in 1..Len(ofSubject) |-> ofSubject[k].id]

\* C10: under each subject the manifest lists the ids the successful uploads
\* of the notes with that subject returned, each once and in the order of
\* the notes; no id is null, and a subject is a key only if it has an upload.
C10_ManifestIsTheUploads ==
    /\ \A subject \in FolderNames :
          /\ org.manifest[subject].ids = UploadedUnder(subject)
          /\ org.manifest[subject].present <=> org.manifest[subject].ids # <<>>
          /\ \A k \in 1..Len(org.manifest[subject].ids) :
                /\ org.manifest[subject].ids[k] # NoId
                /\ \E f \in files : f.id = org.manifest[subject].ids[k]
    /\ \A u, v \in 1..Len(org.uploads) :
          /\ org.notes[org.uploads[u].note].subject = org.uploads[u].subject
          /\ u < v => /\ org.uploads[u].note < org.uploads[v].note
                      /\ org.uploads[u].id # org.uploads[v].id

\* C10 happens: two notes of one subject are uploaded, and a note of the
\* other subject is not
C10_Witness ==
    /\ org.state = "done"
    /\ Len(org.manifest["biology"].ids) = 2
    /\ ~org.manifest["unknown"].present




----------------------------------------------------------------------------
(* Properties of organize_and_upload, under UploadSpec                     *)

\* the folder of the store with this identifier
FolderById(id) == CHOOSE f \in folders : f.id = id

\* the file was uploaded for a result of processing_results with status success
FromSuccess(f) ==
    \E k \in 1..Len(results) :
        /\ results[k].status = "success"
        /\ f.name = <<results[k].subject, "timestamp", results[k].image_path>>

\* the file lies in a subject folder of an "OrganizedNotes" folder that is
\* under base_folder when one is given
UnderOrganizedNotes(f) ==
    /\ FolderById(f.parent).parent = run.organized_notes_folder_id
    /\ FolderById(run.organized_notes_folder_id).name = "OrganizedNotes"
    /\ run.base_folder_id # NoId =>
          FolderById(run.organized_notes_folder_id).parent = run.base_folder_id

\* organize_and_upload made no remote call: none itself, none through
\* organize_notes_by_subject, and the store is as it was
NoRemoteCall ==
    /\ run.calls = {}
    /\ org = IdleOrg
    /\ nextId = 3
    /\ files = {}

\* C11: organize_and_upload uploads only results with status success, into
\* subject folders of the "OrganizedNotes" folder under base_folder; with no
\* success result it returns an empty mapping without any remote call, and
\* when the OrganizedNotes folder cannot be resolved it returns an empty
\* mapping.
C11_OnlySuccessesDelegated ==
    /\ \A f \in files : FromSuccess(f) /\ UnderOrganizedNotes(f)
    /\ ValidResults(results) = <<>> =>
          /\ run.pc \in {"organize_and_upload", "uploaded"}
          /\ run.upload_results = EmptyManifest
          /\ NoRemoteCall
    /\ (run.pc \notin {"organize_and_upload"} /\ run.organized_notes_folder_id = NoId) =>
          /\ run.pc = "uploaded"
          /\ run.upload_results = EmptyManifest

\* C11 without the failures that are not HttpError: the OrganizedNotes folder
\* is resolved, or organize_and_upload has returned an empty mapping
C11_ResolvedOrEmpty ==
    /\ \A f \in files : FromSuccess(f) /\ UnderOrganizedNotes(f)
    /\ ValidResults(results) = <<>> =>
          /\ run.pc \in {"organize_and_upload", "uploaded"}
          /\ run.upload_results = EmptyManifest
          /\ NoRemoteCall
    /\ (run.pc = "uploaded" /\ run.organized_notes_folder_id = NoId) =>
          run.upload_results = EmptyManifest

----------------------------------------------------------------------------
(* Properties of get_processing_summary, under SummarySpec                 *)

\* N, K and J of a result list: its length, its results with status success,
\* and those of them with a subject other than "unknown"
Successes == SelectSeq(results, LAMBDA r : r.status = "success")
Classified == SelectSeq(Successes, LAMBDA r : r.subject # Unknown)

\* C12 as stated: for any list of N results of which K have status success
\* and J of those a subject other than "unknown", the summary reports
\* total_images = N, successful_extractions = K and
\* successful_classifications = J.
C12_CountsOfAnyList ==
    summary # <<>> =>
        /\ summary[1].total_images = Len(results)
        /\ summary[1].successful_extractions = Len(Successes)
        /\ summary[1].successful_classifications = Len(Classified)

\* C12 as amended: total_images = N and successful_extractions = K for any
\* list; successful_classifications is the number of results, of any status,
\* with a subject other than "unknown", which is J whenever every result
\* without status success has the subject "unknown".
C12_CountsBySubject ==
    summary # <<>> =>
        /\ summary[1].total_images = Len(results)
        /\ summary[1].successful_extractions = Len(Successes)
        /\ summary[1].successful_classifications =
              Cardinality({k \in 1..Len(results) : results[k].subject # Unknown})
        /\ (\A k \in 1..Len(results) :
               results[k].status # "success" => results[k].subject = Unknown)
           => summary[1].successful_classifications = Len(Classified)

\* C12 happens: two results, one a success classified as biology and one
\* without text, summarised with K = 1 and J = 1
C12_Witness ==
    /\ summary # <<>>
    /\ Len(results) = 2
    /\ results[1].status = "success" /\ results[1].subject = "biology"
    /\ results[2].status = "no_text_extracted" /\ results[2].subject = Unknown
    /\ summary[1].successful_extractions = 1
    /\ summary[1].successful_classifications = 1

\* C13: both means are the sum over every result divided by the number of
\* results, whatever their status; for an empty list all counts are 0, both
\* means are 0 and the subject distribution is empty.
C13_MeansOverAllResults ==
    summary # <<>> =>
        /\ Len(results) > 0 =>
              /\ summary[1].average_ocr_confidence.den = Len(results)
              /\ summary[1].average_ocr_confidence.num =
                    SumOf(results, "ocr_confidence")
              /\ summary[1].average_classification_confidence.den = Len(results)
              /\ summary[1].average_classification_confidence.num =
                    SumOf(results, "confidence")
        /\ Len(results) = 0 =>
              /\ summary[1].total_images = 0
              /\ summary[1].successful_extractions = 0
              /\ summary[1].successful_classifications = 0
              /\ summary[1].average_ocr_confidence = Zero
              /\ summary[1].average_classification_confidence = Zero
              /\ DOMAIN summary[1].subject_distribution = {}

\* C13 happens: a success and a result of another status, both with
\* confidences that count in the means: 160 / 2 and 100 / 2
C13_Witness ==
    /\ summary # <<>>
    /\ Len(results) = 2
    /\ results[1].status = "success"
    /\ results[2].status # "success"
    /\ results[2].ocr_confidence = 80 /\ results[2].confidence = 50
    /\ summary[1].average_ocr_confidence = [num |-> 160, den |-> 2]
    /\ summary[1].average_classification_confidence = [num |-> 100, den |-> 2]

----------------------------------------------------------------------------
(* Properties of process_multiple_images, under BatchSpec                  *)

\* the calls of process_single_image so far, as the loop made them: image 1
\* started, image 1 ended, image 2 started, ...
OneAtATime ==
    /\ \A k \in 1..Len(run.log) :
          run.log[k] = [event |-> IF k % 2 = 1 THEN "start" ELSE "end",
                        image |-> (k + 1) \div 2]
    /\ \A k \in 1..Len(run.log) :
          run.log[k].event = "end" =>
              /\ run.log[k].image <= Len(results)
              /\ results[run.log[k].image].status \in {"success", "no_text_extracted"}

\* C14: process_multiple_images returns a list as long as its input whose
\* i-th result has the i-th image_path; an image is started only after the
\* one before it has its status; and each result is what process_single_image
\* gives for that image alone, whatever else is in the list.
C14_SequentialInOrder ==
    run.pc \in {"processing", "processed"} =>
        /\ Len(results) <= Len(run.image_paths)
        /\ run.pc = "processed" => Len(results) = Len(run.image_paths)
        /\ \A k \in 1..Len(results) :
              /\ results[k].image_path = run.image_paths[k]
              /\ results[k] = ProcessSingleImage(run.image_paths[k],
                                                 run.confidence_threshold,
                                                 classifier, run.envs[k]).result
        /\ OneAtATime

\* C14 happens: two different images, the first without text and the second
\* classified, returned in the order given
C14_Witness ==
    /\ run.pc = "processed"
    /\ run.image_paths = <<"b.png", "a.jpg">>
    /\ Len(results) = 2
    /\ results[1].image_path = "b.png" /\ results[1].status = "no_text_extracted"
    /\ results[2].image_path = "a.jpg" /\ results[2].status = "success"
    /\ results[2].subject = "biology"

----------------------------------------------------------------------------
(* Properties of main, under MainSpec                                      *)

\* nothing was processed: no extraction, no classification, no folder made
\* or looked for, no upload
NothingProcessed ==
    /\ results = <<>>
    /\ stages = <<>>
    /\ lastCall = NoCall
    /\ run.image_paths = <<>>
    /\ run.calls = {}
    /\ org = IdleOrg
    /\ nextId = 3
    /\ files = {}

\* C15: when args.input is neither a file nor a directory the program ends
\* with exit code 1 and nothing was processed, whatever the credentials; when
\* it is a file or a directory and the credentials are usable, main, when it
\* completes, returns 0.
C15_InvalidPathExitsWithOne ==
    /\ run.kind = "neither" =>
          /\ NothingProcessed
          /\ run.pc \in {"main", "raised", "exit", "crashed"}
          /\ run.pc \in {"exit", "crashed"} => run.exit = 1
    /\ (run.kind # "neither" /\ run.credentials = "usable" /\ run.pc = "exit") =>
          run.exit = 0

\* C15 happens: usable credentials, a path that is neither a file nor a
\* directory, and the program has ended with exit code 1
C15_Witness ==
    /\ run.argv = "nowhere"
    /\ run.kind = "neither"
    /\ run.credentials = "usable"
    /\ run.pc = "exit"
    /\ run.exit = 1
    /\ NothingProcessed

----------------------------------------------------------------------------
(* Properties of process_directory, under DirectorySpec                    *)

\* the files process_directory has selected
Selected == {run.image_paths[k] : k \in 1..Len(run.image_paths)}

\* process_directory has just enumerated the directory
Enumerated ==
    \/ run.pc = "process_multiple_images"
    \/ run.pc = "returned" /\ run.returned = <<EmptyDictionary>>

\* the name matches one of the configured patterns, compared as fnmatch
\* compares with this case rule
MatchesSome(name, caseSensitive) ==
    \E k \in 1..Len(run.file_extensions) :
        Fnmatch(name, run.file_extensions[k], caseSensitive)

\* the name matches one of the configured patterns put in upper case
MatchesSomeUpper(name, caseSensitive) ==
    \E k \in 1..Len(run.file_extensions) :
        Fnmatch(name, UpperCase(run.file_extensions[k]), caseSensitive)

\* process_multiple_images ran on the selection and organize_and_upload on
\* its results, or nothing was selected and nothing was processed or uploaded
ProcessedThenUploaded ==
    /\ (run.pc = "returned" /\ run.returned # <<EmptyDictionary>>) =>
          /\ run.image_paths # <<>>
          /\ Len(results) = Len(run.image_paths)
          /\ \A k \in 1..Len(results) : results[k].image_path = run.image_paths[k]
          /\ \A f \in files : FromSuccess(f)
          /\ org.state = "done" => run.upload_results = org.manifest
          /\ ValidResults(results) # <<>> => run.calls # {}
    /\ (run.pc = "returned" /\ run.returned = <<EmptyDictionary>>) =>
          /\ run.image_paths = <<>>
          /\ results = <<>>
          /\ stages = <<>>
          /\ org = IdleOrg
          /\ run.calls = {}
          /\ files = {}

\* C16 as stated: the files selected are those of the directory whose name
\* matches a configured pattern without regard to case, in any mix of upper
\* and lower case; they are processed, then uploaded; when none matches an
\* empty result is returned and nothing is processed or uploaded.
C16_SelectsAnyCase ==
    /\ Enumerated => Selected = {name \in existing : MatchesSome(name, FALSE)}
    /\ ProcessedThenUploaded

\* C16 as amended: the files selected are those whose name matches a
\* configured pattern as written or put in upper case (so where file-name
\* matching is case-sensitive a mixed-case extension is not selected, and
\* where it ignores case any mix is); they are processed, then uploaded; when
\* none matches an empty result is returned and nothing is processed or
\* uploaded.
C16_SelectsAsWrittenOrUpper ==
    /\ Enumerated =>
          Selected = {name \in existing :
                         \/ MatchesSome(name, run.caseSensitive)
                         \/ MatchesSomeUpper(name, run.caseSensitive)}
    /\ (Enumerated /\ ~run.caseSensitive) =>
          Selected = {name \in existing : MatchesSome(name, FALSE)}
    /\ ProcessedThenUploaded

\* C16 happens: with the default extensions and case-sensitive matching,
\* a.jpg and b.JPG were selected and processed and c.Jpg was not
C16_Witness ==
    /\ run.pc = "returned"
    /\ run.caseSensitive
    /\ run.file_extensions = DefaultExtensions
    /\ run.image_paths = <<"a.jpg", "b.JPG">>
    /\ Len(results) = 2
    /\ run.returned[1].total_images = 2

----------------------------------------------------------------------------
(* Properties of the whole run, under MainSpec                             *)

\* the statuses an image ends with
TerminalStatuses == {"no_text_extracted", "success", "error"}

\* the successful uploads made for the k-th result handed to
\* organize_notes_by_subject
UploadsOf(k) == {j \in 1..Len(org.uploads) : org.uploads[j].note = k}

\* every image has at most one result, with a terminal status, and each stage
\* ran at most once for it; every success result has at most one upload
OnceEach ==
    /\ Len(results) <= Len(run.image_paths)
    /\ Len(stages) = Len(results)
    /\ run.current # 0 => run.current = Len(results) + 1
    /\ \A k \in 1..Len(results) :
          /\ results[k].status \in TerminalStatuses
          /\ stages[k].extract <= 1
          /\ stages[k].confidence <= 1
          /\ stages[k].classify <= 1
          /\ stages[k].model <= 1
    /\ org.state # "idle" =>
          /\ Len(org.notes) = Len(ValidResults(results))
          /\ \A k \in 1..Len(org.notes) : Cardinality(UploadsOf(k)) <= 1
          /\ Cardinality(files) <= Len(org.notes)

\* a result, once there, stays as it is; a result the organizer has dealt
\* with gets no further remote call
NeverAgain ==
    /\ Len(results') >= Len(results)
    /\ \A k \in 1..Len(results) : results'[k] = results[k] /\ stages'[k] = stages[k]
    /\ org.state = "running" =>
          \A k \in 1..(org.i - 1) :
              /\ org'.calls[k] = org.calls[k]
              /\ \A j \in 1..Len(org.uploads) : org'.uploads[j] = org.uploads[j]

\* C17: each image goes from pending to one terminal status in
\* {no_text_extracted, success, error} and keeps it; extraction, confidence
\* computation and classification each run at most once per image, and at
\* most one upload is made per success result.
C17_OneStatusNoRetry ==
    /\ []OnceEach
    /\ [][NeverAgain]_vars

\* C17 happens: a directory of two images, one without text and one
\* classified and uploaded once, and the program has ended
C17_Witness ==
    /\ run.pc = "exit"
    /\ run.kind = "dir"
    /\ Len(results) = 2
    /\ results[1].status = "success"
    /\ results[2].status = "no_text_extracted"
    /\ stages[1].extract = 1 /\ stages[1].classify = 1
    /\ stages[2].extract = 1 /\ stages[2].classify = 0
    /\ Cardinality(files) = 1
    /\ Len(org.uploads) = 1

----------------------------------------------------------------------------
(* Properties of OCRProcessor, under OcrSpec                               *)

\* the confidences the engine reports that are not negative
NonNegative(conf) == SelectSeq(conf, LAMBDA c : c >= 0)

\* C18: get_text_confidence returns the mean of all per-token confidences
\* that are not negative, those equal to 0 included, and 0.0 when there is
\* none or when the image cannot be read or processed.
C18_MeanOfNonNegative ==
    (scan[1].kind = "image" /\ scan[1].calls = 1) =>
        scan[1].confidence =
            IF ~scan[1].readable \/ scan[1].raises \/ NonNegative(scan[1].conf) = <<>>
            THEN 0
            ELSE (SumSeq(NonNegative(scan[1].conf)) * 100)
                     \div Len(NonNegative(scan[1].conf))

\* the text has two whitespace characters in a row
HasRepeatedSpace(text) ==
    \E k \in 1..(Len(text) - 1) : IsSpace(text[k]) /\ IsSpace(text[k + 1])

\* C19: what clean_text returns has no two whitespace characters in a row,
\* no pipe, no digit zero, no non-printable character and no whitespace at
\* either end, and clean_text applied to it returns it unchanged.
C19_CleanTextNormalForm ==
    (scan[1].kind = "text" /\ scan[1].calls >= 1) =>
        LET text == scan[1].cleaned
        IN  /\ ~HasRepeatedSpace(text)
            /\ \A k \in 1..Len(text) :
                  /\ text[k] \notin {"|", "0"}
                  /\ IsPrintable(text[k])
            /\ text # <<>> => ~IsSpace(text[1]) /\ ~IsSpace(text[Len(text)])
            /\ scan[1].calls = 2 => scan[1].cleanedAgain = text

----------------------------------------------------------------------------
(* Properties of process_directory, under DirectorySpec (continued)        *)

\* process_directory has returned its dictionary of results
ReturnedResults ==
    /\ run.pc = "returned"
    /\ run.returned # <<EmptyDictionary>>

\* C20: in one process_directory call, for any extension list, no path is
\* listed twice, so that no file is processed or uploaded twice;
\* total_images is the number of distinct matching files, and
\* successful_uploads <= number of success results <= total_images.
C20_EachFileOnce ==
    /\ \A j, k \in 1..Len(run.image_paths) :
          j # k => run.image_paths[j] # run.image_paths[k]
    /\ \A j, k \in 1..Len(results) :
          j # k => results[j].image_path # results[k].image_path
    /\ \A f, g \in files : f.name = g.name => f = g
    /\ ReturnedResults =>
          /\ run.returned[1].total_images = Cardinality(Selected)
          /\ run.returned[1].successful_uploads <= Len(ValidResults(results))
          /\ Len(ValidResults(results)) <= run.returned[1].total_images
====
